---------------------------- MODULE Spec2Model ----------------------------
(***************************************************************************)
(* A model of henkttp (src/src/main.rs): a single-threaded mio event loop  *)
(* that accepts TCP connections into a slab, and drives each connection    *)
(* through Reading -> Handling -> Writing with one-shot readiness events.  *)
(*                                                                         *)
(* Bytes are integers 0..255 and buffers (Vec<u8>) are sequences of bytes. *)
(***************************************************************************)
EXTENDS Integers, Sequences, FiniteSets, TLC

(***************************************************************************)
(* Bounds of the model.                                                    *)
(***************************************************************************)
\* capacity of the slab (1024 in the program, main.rs:240), scaled down
SlabCapacity == 2
\* number of clients that ever connect
MaxClients == 3
\* a short read or a short write leaves at most this many bytes behind
MaxShort == 1
\* number of readiness events the poller may deliver without cause
MaxSpurious == 1
\* number of pieces a request text is assembled from (pure-function inputs)
MaxPieces == 4

(***************************************************************************)
(* Byte literals of the program.                                           *)
(***************************************************************************)
\* "HTTP/1.1 "
HTTP_PREFIX == <<72, 84, 84, 80, 47, 49, 46, 49, 32>>
\* "200 OK"
OK_LINE == <<50, 48, 48, 32, 79, 75>>
\* "404 Not Found"
NOTFOUND_LINE == <<52, 48, 52, 32, 78, 111, 116, 32, 70, 111, 117, 110, 100>>
\* "500 Internal Server Error"
ERROR_LINE == <<53, 48, 48, 32, 73, 110, 116, 101, 114, 110, 97, 108, 32, 83, 101, 114, 118, 101, 114, 32, 69, 114, 114, 111, 114>>
\* "\r\n"
CRLF == <<13, 10>>
\* "Content-Lenght: " (spelled as in the program)
LENGTH_NAME == <<67, 111, 110, 116, 101, 110, 116, 45, 76, 101, 110, 103, 104, 116, 58, 32>>
\* "Content-type: text/plain; charset=UTF-8\r\n"
CONTENT_TYPE == <<67, 111, 110, 116, 101, 110, 116, 45, 116, 121, 112, 101, 58, 32, 116, 101, 120, 116, 47, 112, 108, 97, 105, 110, 59, 32, 99, 104, 97, 114, 115, 101, 116, 61, 85, 84, 70, 45, 56, 13, 10>>
\* "Hello World!\n"
HELLO == <<72, 101, 108, 108, 111, 32, 87, 111, 114, 108, 100, 33, 10>>
\* "This is the other path!"
OTHER_BODY == <<84, 104, 105, 115, 32, 105, 115, 32, 116, 104, 101, 32, 111, 116, 104, 101, 114, 32, 112, 97, 116, 104, 33>>
\* "/"
ROOT_PATH == <<47>>
\* "/other"
OTHER_PATH == <<47, 111, 116, 104, 101, 114>>
\* "User-Agent"
USER_AGENT == <<85, 115, 101, 114, 45, 65, 103, 101, 110, 116>>
\* "\r\n\r\n"
TERMINATOR == <<13, 10, 13, 10>>
\* "None", and the two halves of "Some(\"...\")": Debug of Option<&str>
NONE_DEBUG == <<78, 111, 110, 101>>
SOME_OPEN == <<83, 111, 109, 101, 40, 34>>
SOME_CLOSE == <<34, 41>>
\* "SystemTime { tv_sec: " and ", tv_nsec: 0 }": Debug of SystemTime
TIME_OPEN == <<83, 121, 115, 116, 101, 109, 84, 105, 109, 101, 32, 123, 32, 116, 118, 95, 115, 101, 99, 58, 32>>
TIME_CLOSE == <<44, 32, 116, 118, 95, 110, 115, 101, 99, 58, 32, 48, 32, 125>>

(***************************************************************************)
(* Helpers on byte sequences.                                              *)
(***************************************************************************)
\* EndsWith comparing only the second half of the suffix
EndsWith_HalfSuffix(buf, suf) ==
    LET half == SubSeq(suf, Len(suf) \div 2 + 1, Len(suf))
    IN  /\ Len(buf) >= Len(half)
        /\ SubSeq(buf, Len(buf) - Len(half) + 1, Len(buf)) = half

\* slice::ends_with
EndsWith(buf, suf) ==
    /\ Len(buf) >= Len(suf)
    /\ SubSeq(buf, Len(buf) - Len(suf) + 1, Len(buf)) = suf

\* str::starts_with
StartsWith(s, pre) ==
    /\ Len(s) >= Len(pre)
    /\ SubSeq(s, 1, Len(pre)) = pre

\* Option<T>
None == [some |-> FALSE, val |-> <<>>]
Some(v) == [some |-> TRUE, val |-> v]

\* the bytes of a sequence from position i on
Drop(s, i) == SubSeq(s, i, Len(s))

\* char::is_whitespace on the ASCII range
IsWhitespace(b) == b \in {9, 10, 11, 12, 13, 32}

\* std::str::from_utf8(..).is_ok(): well-formed UTF-8 (Unicode table 3-7)
IsCont(b) == b >= 128 /\ b <= 191
RECURSIVE Utf8From(_, _)
Utf8From(s, i) ==
    IF i > Len(s) THEN TRUE
    ELSE LET b == s[i]
             has(k) == i + k <= Len(s)
         IN  IF b < 128 THEN Utf8From(s, i + 1)
             ELSE IF b >= 194 /\ b <= 223
                  THEN has(1) /\ IsCont(s[i + 1]) /\ Utf8From(s, i + 2)
             ELSE IF b >= 224 /\ b <= 239
                  THEN /\ has(2)
                       /\ IsCont(s[i + 1]) /\ IsCont(s[i + 2])
                       /\ (b = 224 => s[i + 1] >= 160)
                       /\ (b = 237 => s[i + 1] <= 159)
                       /\ Utf8From(s, i + 3)
             ELSE IF b >= 240 /\ b <= 244
                  THEN /\ has(3)
                       /\ IsCont(s[i + 1]) /\ IsCont(s[i + 2]) /\ IsCont(s[i + 3])
                       /\ (b = 240 => s[i + 1] >= 144)
                       /\ (b = 244 => s[i + 1] <= 143)
                       /\ Utf8From(s, i + 4)
             ELSE FALSE
IsUtf8(s) == Utf8From(s, 1)

\* str::split_whitespace, collected: the maximal runs of non-whitespace
RECURSIVE SplitFrom(_, _, _, _)
SplitFrom(s, i, cur, acc) ==
    IF i > Len(s)
    THEN IF cur = <<>> THEN acc ELSE Append(acc, cur)
    ELSE IF IsWhitespace(s[i])
         THEN SplitFrom(s, i + 1, <<>>, IF cur = <<>> THEN acc ELSE Append(acc, cur))
         ELSE SplitFrom(s, i + 1, Append(cur, s[i]), acc)
SplitWhitespace(s) == SplitFrom(s, 1, <<>>, <<>>)

\* str::lines, collected: split at "\n", a trailing "\r" of a line removed,
\* no last empty line after a final "\n"
StripCR(line) ==
    IF Len(line) > 0 /\ line[Len(line)] = 13
    THEN SubSeq(line, 1, Len(line) - 1) ELSE line
RECURSIVE LinesFrom(_, _, _, _)
LinesFrom(s, i, cur, acc) ==
    IF i > Len(s)
    THEN IF cur = <<>> THEN acc ELSE Append(acc, StripCR(cur))
    ELSE IF s[i] = 10
         THEN LinesFrom(s, i + 1, <<>>, Append(acc, StripCR(cur)))
         ELSE LinesFrom(s, i + 1, Append(cur, s[i]), acc)
Lines(s) == LinesFrom(s, 1, <<>>, <<>>)

\* Iterator::take_while(|line| *line != "")
RECURSIVE TakeNonEmpty(_)
TakeNonEmpty(ls) ==
    IF ls = <<>> \/ Head(ls) = <<>> THEN <<>>
    ELSE <<Head(ls)>> \o TakeNonEmpty(Tail(ls))

\* Iterator::filter(|line| line.starts_with(name)).next()
RECURSIVE FirstStartingWith(_, _)
FirstStartingWith(ls, name) ==
    IF ls = <<>> THEN None
    ELSE IF StartsWith(Head(ls), name) THEN Some(Head(ls))
    ELSE FirstStartingWith(Tail(ls), name)

(***************************************************************************)
(* RequestParser                                                           *)
(***************************************************************************)
method(text) ==
    LET toks == SplitWhitespace(text)
    IN  IF Len(toks) >= 1 THEN Some(toks[1]) ELSE None

path(text) ==
    LET toks == SplitWhitespace(text)
    IN  IF Len(toks) >= 2 THEN Some(toks[2]) ELSE None

headers(text) ==
    LET ls == Lines(text)
    IN  IF ls = <<>> THEN <<>> ELSE TakeNonEmpty(Tail(ls))

header(text, name) == FirstStartingWith(headers(text), name)

(***************************************************************************)
(* Formatting                                                              *)
(***************************************************************************)
\* Display of usize: decimal digits, no padding
RECURSIVE Decimal(_)
Decimal(n) ==
    IF n < 10 THEN <<48 + n>>
    ELSE Append(Decimal(n \div 10), 48 + (n % 10))

\* Debug of str, without the quotes: escapes of the ASCII range
EscapeByte(b) ==
    CASE b = 34 -> <<92, 34>>
      [] b = 92 -> <<92, 92>>
      [] b = 10 -> <<92, 110>>
      [] b = 13 -> <<92, 114>>
      [] b = 9  -> <<92, 116>>
      [] OTHER  -> <<b>>
RECURSIVE EscapeDebug(_)
EscapeDebug(s) ==
    IF s = <<>> THEN <<>> ELSE EscapeByte(Head(s)) \o EscapeDebug(Tail(s))

\* format!("{:?}", Option<&str>)
OptionDebug(opt) ==
    IF opt.some THEN SOME_OPEN \o EscapeDebug(opt.val) \o SOME_CLOSE
    ELSE NONE_DEBUG

\* format!("{:?}", SystemTime): the clock reads sec seconds
SystemTimeDebug(sec) == TIME_OPEN \o Decimal(sec) \o TIME_CLOSE

(***************************************************************************)
(* StatusCode and Response                                                 *)
(***************************************************************************)
StatusCodeWrite(code) ==
    HTTP_PREFIX
    \o (CASE code = "Ok" -> OK_LINE
          [] code = "NotFound" -> NOTFOUND_LINE
          [] code = "Error" -> ERROR_LINE)
    \o CRLF

ResponseNew == [code |-> "Ok", body |-> <<>>]

\* ResponseWrite with the length taken after the blank line was counted in
ResponseWrite_CountsBlankLine(resp) ==
    StatusCodeWrite(resp.code)
    \o LENGTH_NAME \o Decimal(Len(CRLF \o resp.body)) \o CRLF
    \o CONTENT_TYPE
    \o CRLF
    \o resp.body

ResponseWrite(resp) ==
    StatusCodeWrite(resp.code)
    \o LENGTH_NAME \o Decimal(Len(resp.body)) \o CRLF
    \o CONTENT_TYPE
    \o CRLF
    \o resp.body

\* HandleResponse matching the routes by prefix instead of exactly
HandleResponse_PrefixMatch(req, sec) ==
    IF IsUtf8(req)
    THEN LET p == path(req)
         IN  IF p.some /\ StartsWith(p.val, OTHER_PATH)
             THEN [ResponseNew EXCEPT !.body = OTHER_BODY]
             ELSE IF p.some /\ StartsWith(p.val, ROOT_PATH)
             THEN [ResponseNew EXCEPT !.body =
                       HELLO \o SystemTimeDebug(sec)
                             \o OptionDebug(header(req, USER_AGENT))]
             ELSE [ResponseNew EXCEPT !.code = "NotFound"]
    ELSE [ResponseNew EXCEPT !.code = "Error"]

\* the Response that Request::handle builds for the inbound buffer req when
\* the clock reads sec
HandleResponse(req, sec) ==
    IF IsUtf8(req)
    THEN LET p == path(req)
         IN  IF p = Some(ROOT_PATH)
             THEN [ResponseNew EXCEPT !.body =
                       HELLO \o SystemTimeDebug(sec)
                             \o OptionDebug(header(req, USER_AGENT))]
             ELSE IF p = Some(OTHER_PATH)
             THEN [ResponseNew EXCEPT !.body = OTHER_BODY]
             ELSE [ResponseNew EXCEPT !.code = "NotFound"]
    ELSE [ResponseNew EXCEPT !.code = "Error"]

(***************************************************************************)
(* State of the program and of its environment.                            *)
(***************************************************************************)
VARIABLES
    running,        \* FALSE once the process has panicked
    requests,       \* HttpServer.requests: the slab, token -> Request or Vacant
    stream,         \* the TcpStream owned by the Request of each token
    interest,       \* per token, the EventSet armed with the poller ({} = disarmed)
    backlog,        \* connections waiting in the listener's accept queue
    listenerEvent,  \* an edge-triggered event on the listener awaits dispatch
    clients,        \* number of clients that have connected so far
    spurious,       \* number of readiness events delivered without cause
    last            \* trace of the last handler call: what it did

vars == <<running, requests, stream, interest, backlog, listenerEvent,
          clients, spurious, last>>

\* const SERVER: Token = Token(0)
SERVER == 0
\* FIRST_TOKEN when the slab starts at the token of the listener
FIRST_TOKEN_Server == SERVER
\* Slab::new_starting_at(Token(1), ..)
FIRST_TOKEN == 1
Tokens == FIRST_TOKEN .. (FIRST_TOKEN + SlabCapacity - 1)

READABLE == {"readable"}
WRITABLE == {"writable"}
\* EventSet::all()
ALL == {"readable", "writable", "error", "hup"}

Vacant == [token |-> SERVER, state |-> "Vacant", req |-> <<>>, res |-> <<>>]

\* Request::new
RequestNew(token) ==
    [token |-> token, state |-> "Reading", req |-> <<>>, res |-> <<>>]

\* a socket: wire = segments the client has still to send, rx = bytes that
\* arrived and were not read, eof = the peer closed its side, reset = the
\* connection was reset (an I/O error is pending), shut = number of
\* shutdown(Both) calls made, sent = bytes the kernel accepted for the peer
NoStream ==
    [wire |-> <<>>, rx |-> <<>>, eof |-> FALSE, reset |-> FALSE,
     shut |-> 0, sent |-> <<>>]
NewStream(script) == [NoStream EXCEPT !.wire = script]

\* "G /x\r\n", the request line of a client
REQUEST_LINE == <<71, 32, 47, 120>> \o CRLF
\* what a client sends, as the segments it sends it in
Scripts ==
    { <<REQUEST_LINE \o CRLF>>,
      <<REQUEST_LINE, CRLF>> }

\* what the clock may read when a request is handled
ClockValues == {9, 10}

\* the trace of a handler call: which handler ran for which token, the
\* outcome of its accept, read or write, and whether the call re-registered
\* the socket and shut it down
NoCall == [step |-> "none", token |-> SERVER, result |-> "none",
           rereg |-> FALSE, shutdown |-> FALSE]
Call(step, token, result, rereg, shutdown) ==
    [step |-> step, token |-> token, result |-> result,
     rereg |-> rereg, shutdown |-> shutdown]

Live(t) == t \in Tokens /\ requests[t] # Vacant
LiveTokens == {t \in Tokens : Live(t)}

\* NextFree that hands out the first slot whenever some slot is vacant
NextFree_FirstSlot ==
    IF \E t \in Tokens : requests[t] = Vacant
    THEN Some(FIRST_TOKEN)
    ELSE None

\* Slab::insert_with: the slot the next insertion takes, None when full
NextFree ==
    IF \E t \in Tokens : requests[t] = Vacant
    THEN Some(CHOOSE t \in Tokens :
                 /\ requests[t] = Vacant
                 /\ \A u \in Tokens : requests[u] = Vacant => t <= u)
    ELSE None

\* InterestFor that arms every kind for Writing as it does for Handling
InterestFor_AllWhenWriting(state) ==
    CASE state = "Reading" -> READABLE
      [] state = "Handling" -> ALL
      [] state = "Writing" -> ALL

\* InterestFor with the kinds of Reading and Writing exchanged
InterestFor_Swapped(state) ==
    CASE state = "Reading" -> WRITABLE
      [] state = "Handling" -> ALL
      [] state = "Writing" -> READABLE

\* Request::reregister: the EventSet for a state, armed one-shot
InterestFor(state) ==
    CASE state = "Reading" -> READABLE
      [] state = "Handling" -> ALL
      [] state = "Writing" -> WRITABLE

\* the readiness kinds the kernel reports for a socket
Ready(t) ==
    LET s == stream[t]
    IN  (IF s.rx # <<>> \/ s.eof \/ s.reset \/ s.shut > 0 THEN {"readable"} ELSE {})
        \cup {"writable"}
        \cup (IF s.reset THEN {"error"} ELSE {})
        \cup (IF s.reset \/ s.shut > 0 THEN {"hup"} ELSE {})

\* the numbers of bytes one read or write call may transfer out of avail
TransferSizes(avail) == {n \in 1..avail : n >= avail - MaxShort}

Init ==
    /\ running = TRUE
    /\ requests = [t \in Tokens |-> Vacant]
    /\ stream = [t \in Tokens |-> NoStream]
    /\ interest = [t \in Tokens |-> {}]
    /\ backlog = <<>>
    /\ listenerEvent = FALSE
    /\ clients = 0
    /\ spurious = 0
    /\ last = NoCall

(***************************************************************************)
(* The environment: clients and the network.                               *)
(***************************************************************************)
\* a client connects: the connection enters the accept queue, and the
\* listener (registered edge-triggered, main.rs:292) gets an event
Connect(script) ==
    /\ running
    /\ clients < MaxClients
    /\ clients' = clients + 1
    /\ backlog' = Append(backlog, script)
    /\ listenerEvent' = TRUE
    /\ UNCHANGED <<running, requests, stream, interest, spurious, last>>

\* the next segment of the client arrives at the socket
Deliver(t) ==
    /\ running
    /\ Live(t)
    /\ stream[t].wire # <<>>
    /\ ~stream[t].eof /\ ~stream[t].reset /\ stream[t].shut = 0
    /\ stream' = [stream EXCEPT ![t].rx = @ \o Head(stream[t].wire),
                                ![t].wire = Tail(@)]
    /\ UNCHANGED <<running, requests, interest, backlog, listenerEvent,
                   clients, spurious, last>>

\* the client closes its side, with or without having sent everything
PeerClose(t) ==
    /\ running
    /\ Live(t)
    /\ ~stream[t].eof /\ ~stream[t].reset /\ stream[t].shut = 0
    /\ stream' = [stream EXCEPT ![t].eof = TRUE, ![t].wire = <<>>]
    /\ UNCHANGED <<running, requests, interest, backlog, listenerEvent,
                   clients, spurious, last>>

\* the connection is reset: reads and writes on the socket now fail
PeerReset(t) ==
    /\ running
    /\ Live(t)
    /\ ~stream[t].reset /\ stream[t].shut = 0
    /\ stream' = [stream EXCEPT ![t].reset = TRUE, ![t].wire = <<>>]
    /\ UNCHANGED <<running, requests, interest, backlog, listenerEvent,
                   clients, spurious, last>>

\* the poller reports the listener readable although nothing arrived
SpuriousListener ==
    /\ running
    /\ ~listenerEvent
    /\ spurious < MaxSpurious
    /\ spurious' = spurious + 1
    /\ listenerEvent' = TRUE
    /\ UNCHANGED <<running, requests, stream, interest, backlog, clients, last>>

(***************************************************************************)
(* HttpServer::ready for the token SERVER: accept one connection.          *)
(***************************************************************************)
\* accept() returns a connection: Ok(Some((stream, addr)))
Accept ==
    /\ running
    /\ listenerEvent
    /\ backlog # <<>>
    /\ listenerEvent' = FALSE
    /\ backlog' = Tail(backlog)
    /\ LET slot == NextFree
       IN  IF slot.some
           THEN /\ requests' = [requests EXCEPT ![slot.val] = RequestNew(slot.val)]
                /\ stream' = [stream EXCEPT ![slot.val] = NewStream(Head(backlog))]
                /\ interest' = [interest EXCEPT ![slot.val] = READABLE]
                /\ last' = Call("accept", slot.val, "accepted", FALSE, FALSE)
                /\ UNCHANGED running
           ELSE \* insert_with(..) is None and unwrap() panics
                /\ running' = FALSE
                /\ last' = Call("accept", SERVER, "full", FALSE, FALSE)
                /\ UNCHANGED <<requests, stream, interest>>
    /\ UNCHANGED <<clients, spurious>>

\* accept() would block: Ok(None), "false alarm!"
AcceptNone ==
    /\ running
    /\ listenerEvent
    /\ backlog = <<>>
    /\ listenerEvent' = FALSE
    /\ last' = Call("accept", SERVER, "none", FALSE, FALSE)
    /\ UNCHANGED <<running, requests, stream, interest, backlog, clients, spurious>>

\* accept() fails, the waiting connection having been aborted: Err(e)
AcceptError ==
    /\ running
    /\ listenerEvent
    /\ backlog # <<>>
    /\ listenerEvent' = FALSE
    /\ backlog' = Tail(backlog)
    /\ last' = Call("accept", SERVER, "err", FALSE, FALSE)
    /\ UNCHANGED <<running, requests, stream, interest, clients, spurious>>

(***************************************************************************)
(* HttpServer::ready for any other token: Request::ready.                  *)
(***************************************************************************)
\* the kinds the kernel reports among those armed for t
Genuine(t) == interest[t] \cap Ready(t)
\* the EventSet of the event delivered for t: what is armed and ready, or,
\* for an event without cause, what is armed
Events(t) == IF Genuine(t) # {} THEN Genuine(t) ELSE interest[t]

\* the poller has an event for t: its one-shot interest is armed, and ready
\* or reported without cause
Dispatch(t) ==
    /\ running
    /\ Live(t)
    /\ interest[t] # {}
    /\ Genuine(t) = {} => spurious < MaxSpurious

\* the call panics: the process ends
Panic(t, step, result) ==
    /\ running' = FALSE
    /\ interest' = [interest EXCEPT ![t] = {}]
    /\ last' = Call(step, t, result, FALSE, FALSE)
    /\ UNCHANGED <<requests, stream>>

\* Request::ready in state Reading, and Request::read
Read(t) ==
    /\ Dispatch(t)
    /\ requests[t].state = "Reading"
    /\ LET s == stream[t]
           r == requests[t]
       IN  IF "readable" \notin Events(t)
           THEN Panic(t, "read", "assert") /\ UNCHANGED spurious
           ELSE IF s.reset
           THEN \* Err(e)
                Panic(t, "read", "err") /\ UNCHANGED spurious
           ELSE IF s.rx = <<>> /\ (s.eof \/ s.shut > 0)
           THEN \* Ok(Some(0))
                /\ interest' = [interest EXCEPT ![t] = InterestFor(r.state)]
                /\ last' = Call("read", t, "zero", TRUE, FALSE)
                /\ UNCHANGED <<running, requests, stream, spurious>>
           ELSE IF s.rx = <<>>
           THEN \* Ok(None)
                /\ spurious' = spurious + 1
                /\ interest' = [interest EXCEPT ![t] = InterestFor(r.state)]
                /\ last' = Call("read", t, "none", TRUE, FALSE)
                /\ UNCHANGED <<running, requests, stream>>
           ELSE \* Ok(Some(n))
                \E n \in TransferSizes(Len(s.rx)) :
                  LET req == r.req \o SubSeq(s.rx, 1, n)
                      state == IF EndsWith(req, TERMINATOR)
                               THEN "Handling" ELSE r.state
                  IN  /\ requests' = [requests EXCEPT ![t].req = req,
                                                      ![t].state = state]
                      /\ stream' = [stream EXCEPT ![t].rx = Drop(s.rx, n + 1)]
                      /\ interest' = [interest EXCEPT ![t] = InterestFor(state)]
                      /\ last' = Call("read", t, "some", TRUE, FALSE)
                      /\ UNCHANGED <<running, spurious>>
    /\ UNCHANGED <<backlog, listenerEvent, clients>>

\* Request::ready in state Handling, and Request::handle
Handle(t, sec) ==
    /\ Dispatch(t)
    /\ requests[t].state = "Handling"
    /\ LET r == requests[t]
           response == HandleResponse(r.req, sec)
       IN  /\ requests' = [requests EXCEPT
                              ![t].res = r.res \o ResponseWrite(response),
                              ![t].state = "Writing"]
           /\ interest' = [interest EXCEPT ![t] = InterestFor("Writing")]
           /\ last' = Call("handle", t, response.code, TRUE, FALSE)
    /\ UNCHANGED <<running, stream, backlog, listenerEvent, clients, spurious>>

\* Request::ready in state Writing, and Request::write
Write(t) ==
    /\ Dispatch(t)
    /\ requests[t].state = "Writing"
    /\ LET s == stream[t]
           r == requests[t]
           len == Len(r.res)
       IN  IF "writable" \notin Events(t)
           THEN Panic(t, "write", "assert") /\ UNCHANGED spurious
           ELSE IF s.reset \/ s.shut > 0
           THEN \* Err(e)
                Panic(t, "write", "err") /\ UNCHANGED spurious
           ELSE \/ \* Ok(Some(n)), then shutdown
                   \E n \in TransferSizes(len) :
                     /\ stream' = [stream EXCEPT
                                      ![t].sent = @ \o SubSeq(r.res, 1, n),
                                      ![t].shut = @ + 1]
                     /\ interest' = [interest EXCEPT ![t] = {}]
                     /\ last' = Call("write", t,
                                     IF n = len THEN "full" ELSE "partial",
                                     FALSE, TRUE)
                     /\ UNCHANGED <<running, requests, spurious>>
                \/ \* Ok(None): reregister, then shutdown all the same
                   /\ spurious < MaxSpurious
                   /\ spurious' = spurious + 1
                   /\ stream' = [stream EXCEPT ![t].shut = @ + 1]
                   /\ interest' = [interest EXCEPT ![t] = InterestFor(r.state)]
                   /\ last' = Call("write", t, "none", TRUE, TRUE)
                   /\ UNCHANGED <<running, requests>>
    /\ UNCHANGED <<backlog, listenerEvent, clients>>

Next ==
    \/ \E script \in Scripts : Connect(script)
    \/ \E t \in Tokens : Deliver(t)
    \/ \E t \in Tokens : PeerClose(t)
    \/ \E t \in Tokens : PeerReset(t)
    \/ SpuriousListener
    \/ Accept
    \/ AcceptNone
    \/ AcceptError
    \/ \E t \in Tokens : Read(t)
    \/ \E t \in Tokens, sec \in ClockValues : Handle(t, sec)
    \/ \E t \in Tokens : Write(t)

Spec == Init /\ [][Next]_vars

(***************************************************************************)
(* Request::handle on its own: one connection that has just read a buffer  *)
(* ending with the terminator, for every buffer assembled from a few       *)
(* pieces.                                                                 *)
(***************************************************************************)
\* "G", " ", "/", "/other", "x", "\r\n", "User-Agent: t", the two bytes of
\* U+00E9, and the byte 0xFF that no UTF-8 text contains
Pieces ==
    { <<71>>, <<32>>, ROOT_PATH, OTHER_PATH, <<120>>, CRLF,
      USER_AGENT \o <<58, 32, 116>>, <<195, 169>>, <<255>> }

RECURSIVE Concat(_)
Concat(ps) == IF ps = <<>> THEN <<>> ELSE Head(ps) \o Concat(Tail(ps))

InboundBuffers ==
    {Concat(ps) \o TERMINATOR :
        ps \in UNION {[1..k -> Pieces] : k \in 0..MaxPieces}}

InitHandle ==
    /\ running = TRUE
    /\ \E buf \in InboundBuffers :
         requests = [t \in Tokens |->
                        IF t = FIRST_TOKEN
                        THEN [RequestNew(t) EXCEPT !.state = "Handling",
                                                   !.req = buf]
                        ELSE Vacant]
    /\ stream = [t \in Tokens |-> NoStream]
    /\ interest = [t \in Tokens |-> IF t = FIRST_TOKEN THEN ALL ELSE {}]
    /\ backlog = <<>>
    /\ listenerEvent = FALSE
    /\ clients = 1
    /\ spurious = 0
    /\ last = Call("read", FIRST_TOKEN, "some", TRUE, FALSE)

NextHandle == \E sec \in ClockValues : Handle(FIRST_TOKEN, sec)

SpecHandle == InitHandle /\ [][NextHandle]_vars

(***************************************************************************)
(* Reading a serialized response back, as a client does.                   *)
(***************************************************************************)
\* the first position at or after i where pat occurs in buf, 0 if none
RECURSIVE Find(_, _, _)
Find(buf, pat, i) ==
    IF i + Len(pat) - 1 > Len(buf) THEN 0
    ELSE IF SubSeq(buf, i, i + Len(pat) - 1) = pat THEN i
    ELSE Find(buf, pat, i + 1)

\* the bytes after the first blank line
BodyOf(res) == Drop(res, Find(res, TERMINATOR, 1) + Len(TERMINATOR))

\* the three digits of the status line
StatusOf(res) == SubSeq(res, Len(HTTP_PREFIX) + 1, Len(HTTP_PREFIX) + 3)

IsDigit(b) == b >= 48 /\ b <= 57
RECURSIVE ParseDecimal(_, _, _)
ParseDecimal(buf, i, acc) ==
    IF i <= Len(buf) /\ IsDigit(buf[i])
    THEN ParseDecimal(buf, i + 1, 10 * acc + (buf[i] - 48))
    ELSE acc

\* the number the length header declares, -1 if it has none
DeclaredLength(res) ==
    LET at == Find(res, CRLF \o LENGTH_NAME, 1)
        i == at + Len(CRLF \o LENGTH_NAME)
    IN  IF at = 0 \/ i > Len(res) \/ ~IsDigit(res[i]) THEN -1
        ELSE ParseDecimal(res, i, 0)

\* the connections that have a serialized response
Handled == {t \in LiveTokens : requests[t].res # <<>>}

(***************************************************************************)
(* Claims                                                                  *)
(***************************************************************************)

\* C1: a connection whose client sent a complete header block and keeps its
\* socket open has, once its socket is shut down, had the whole serialized
\* response written to the socket.
C1_WholeResponseWritten ==
    \A t \in LiveTokens :
        (stream[t].shut > 0 /\ ~stream[t].eof /\ ~stream[t].reset)
            => stream[t].sent = requests[t].res

\* C2: the response of the Handling step is chosen by exact match on the
\* request path: "/" gives 200, "/other" gives 200 with exactly the fixed
\* alternate text, any other or absent path gives 404 with an empty body,
\* and a buffer that is not UTF-8 gives 500 with an empty body.
C2_RouteTable ==
    \A t \in Handled :
        LET req == requests[t].req
            status == StatusOf(requests[t].res)
            body == BodyOf(requests[t].res)
        IN  IF ~IsUtf8(req) THEN status = <<53, 48, 48>> /\ body = <<>>
            ELSE IF path(req) = Some(ROOT_PATH)
                 THEN status = <<50, 48, 48>> /\ StartsWith(body, HELLO)
            ELSE IF path(req) = Some(OTHER_PATH)
                 THEN status = <<50, 48, 48>> /\ body = OTHER_BODY
            ELSE status = <<52, 48, 52>> /\ body = <<>>

\* C2 witness: the request "G /other" has been answered with the alternate
\* text.
C2_Witness ==
    /\ last.step = "handle"
    /\ path(requests[FIRST_TOKEN].req) = Some(OTHER_PATH)
    /\ method(requests[FIRST_TOKEN].req) = Some(<<71>>)
    /\ BodyOf(requests[FIRST_TOKEN].res) = OTHER_BODY

\* C3: in every serialized response the number the length header declares
\* is the number of body bytes after the blank line.
C3_DeclaredLength ==
    \A t \in Handled :
        DeclaredLength(requests[t].res) = Len(BodyOf(requests[t].res))

\* C3 witness: a response with a body whose length has several digits.
C3_Witness ==
    /\ last.step = "handle"
    /\ Len(BodyOf(requests[FIRST_TOKEN].res)) > Len(HELLO) + Len(NONE_DEBUG)
    /\ DeclaredLength(requests[FIRST_TOKEN].res) >= 10

\* C4: when a read in Reading reports 0 bytes, the connection is destroyed
\* and is not re-registered for readable.
C4_ZeroReadDestroys ==
    (last.step = "read" /\ last.result = "zero")
        => (~Live(last.token) /\ ~last.rereg)

\* C5: a read or write error on one connection's socket does not terminate
\* the process.
C5_IoErrorKeepsRunning ==
    (last.step \in {"read", "write"} /\ last.result = "err") => running

\* C6: when a connection is accepted while the table is at capacity, the
\* process keeps running.
C6_FullTableKeepsRunning ==
    (last.step = "accept" /\ last.result = "full") => running

\* C7: when a write in Writing writes all remaining bytes, the socket is shut
\* down and the entry of the connection is removed from the table.
C7_FullWriteRemoves ==
    (last.step = "write" /\ last.result = "full")
        => (stream[last.token].shut > 0 /\ ~Live(last.token))

\* C8: the token given to a newly accepted connection is not the token of a
\* connection live at that moment, and no two live connections share a token.
C8_Accepted ==
    /\ Len(backlog') < Len(backlog)
    /\ last'.step = "accept"
    /\ last'.result = "accepted"
C8_FreshToken ==
    [][C8_Accepted =>
          /\ ~Live(last'.token)
          /\ requests'[last'.token].token = last'.token
          /\ \A t, u \in Tokens :
                (requests'[t] # Vacant /\ requests'[u] # Vacant /\ t # u)
                    => requests'[t].token # requests'[u].token]_vars

\* C8 witness: a second connection has been accepted while the first is live.
C8_Witness ==
    /\ last.step = "accept"
    /\ last.result = "accepted"
    /\ Cardinality(LiveTokens) = 2

\* C9: the token of a destroyed connection is eligible for reuse: an accept
\* never finds the table full of connections that have all been shut down.
C9_TokenReusable ==
    (last.step = "accept" /\ last.result = "full")
        => \E t \in Tokens : stream[t].shut = 0

\* C10: when a Reading step returns after a read that reported bytes, the
\* inbound buffer ends with the header terminator (the step reads until a
\* read would block or the terminator is found).
C10_ReadSome ==
    /\ last'.step = "read"
    /\ last'.result = "some"
    /\ requests' # requests
C10_Drains ==
    [][C10_ReadSome =>
          EndsWith(requests'[last'.token].req, TERMINATOR)]_vars

\* C11: when a write in Writing accepts fewer bytes than remain, the
\* connection re-registers for writable and does not shut the socket down.
C11_PartialWriteContinues ==
    (last.step = "write" /\ last.result = "partial")
        => /\ last.rereg
           /\ ~last.shutdown
           /\ requests[last.token].state = "Writing"
           /\ stream[last.token].shut = 0

\* C12: when a write in Writing would block, the connection re-registers for
\* writable and the socket is not shut down in that step.
C12_WouldBlockKeepsOpen ==
    (last.step = "write" /\ last.result = "none")
        => /\ last.rereg
           /\ ~last.shutdown
           /\ requests[last.token].state = "Writing"

\* C13: a socket is shut down once, and only on the transition out of
\* Writing: the step that shuts it down is a write step of a connection in
\* Writing whose socket was open, and it does not re-register the connection
\* to go on writing.
C13_ShutdownLeavesWriting ==
    [][\A t \in Tokens :
          stream'[t].shut # stream[t].shut
              => /\ stream[t].shut = 0
                 /\ stream'[t].shut = 1
                 /\ requests[t].state = "Writing"
                 /\ last'.step = "write"
                 /\ last'.token = t
                 /\ ~last'.rereg
                 /\ interest'[t] = {}]_vars

\* C14: every connection step ends in a re-registration or in the removal of
\* the connection: no live connection is left with its interest disarmed.
C14_AlwaysArmed ==
    running => \A t \in LiveTokens : interest[t] # {}

\* C15: a read that reports N > 0 bytes appends them to the inbound buffer,
\* the previous contents staying as a prefix; the connection moves to Handling
\* exactly if the buffer now ends with CR LF CR LF, and otherwise stays in
\* Reading and re-registers for readable.
C15_AppendsAndDecides ==
    [][C10_ReadSome =>
          LET t == last'.token
              old == requests[t].req
              new == requests'[t].req
              n == Len(new) - Len(old)
              ended == /\ Len(new) >= 4
                       /\ SubSeq(new, Len(new) - 3, Len(new)) = <<13, 10, 13, 10>>
          IN  /\ requests[t].state = "Reading"
              /\ n > 0
              /\ SubSeq(new, 1, Len(old)) = old
              /\ Drop(new, Len(old) + 1) = SubSeq(stream[t].rx, 1, n)
              /\ stream'[t].rx = Drop(stream[t].rx, n + 1)
              /\ (requests'[t].state = "Handling") <=> ended
              /\ ~ended => /\ requests'[t].state = "Reading"
                           /\ interest'[t] = READABLE
                           /\ last'.rereg]_vars

\* C15 witness: a read has appended the request line, which ends with CR LF
\* but not with the terminator, and the connection stays in Reading.
C15_Witness ==
    /\ last.step = "read"
    /\ last.result = "some"
    /\ requests[last.token].state = "Reading"
    /\ requests[last.token].req = REQUEST_LINE
    /\ interest[last.token] = READABLE

\* C16: the Handling step does no socket I/O, writes one fully serialized
\* response into the empty outbound buffer, sets the state to Writing and
\* re-registers for writable, whatever the status of the response.
C16_HandleStep ==
    /\ last'.step = "handle"
    /\ requests' # requests
C16_HandleThenWriting ==
    [][C16_HandleStep =>
          LET t == last'.token
              res == requests'[t].res
          IN  /\ requests[t].state = "Handling"
              /\ stream' = stream
              /\ requests[t].res = <<>>
              /\ requests'[t].req = requests[t].req
              /\ StartsWith(res, HTTP_PREFIX)
              /\ \A i \in 2 .. (Len(res) - Len(HTTP_PREFIX) + 1) :
                    SubSeq(res, i, i + Len(HTTP_PREFIX) - 1) # HTTP_PREFIX
              /\ DeclaredLength(res) = Len(BodyOf(res))
              /\ last'.result \in {"Ok", "NotFound", "Error"}
              /\ requests'[t].state = "Writing"
              /\ interest'[t] = WRITABLE
              /\ last'.rereg]_vars

\* C16 witness: a buffer that is not UTF-8 has been handled with status Error
\* and the connection is in Writing, armed for writable.
C16_Witness ==
    /\ last.step = "handle"
    /\ last.result = "Error"
    /\ requests[last.token].state = "Writing"
    /\ interest[last.token] = WRITABLE

\* C17: token 0 belongs to the listener and never appears in the table: every
\* token in the table is at least 1, and no connection handler ever runs for
\* token 0.
C17_ServerTokenReserved ==
    /\ SERVER \notin LiveTokens
    /\ \A t \in LiveTokens : requests[t].token >= 1 /\ requests[t].token # SERVER
    /\ last.step \in {"read", "handle", "write"} => last.token # SERVER
    /\ (last.step = "accept" /\ last.result = "accepted") => last.token # SERVER

\* C17 witness: the table is full, and an event for token 0 awaits dispatch.
C17_Witness ==
    /\ LiveTokens = Tokens
    /\ listenerEvent
    /\ running

\* the tokens of the first line of a text
FirstLineTokens(text) ==
    IF Lines(text) = <<>> THEN <<>> ELSE SplitWhitespace(Lines(text)[1])
\* the k-th of them, absent when the first line has fewer
FirstLineToken(text, k) ==
    IF Len(FirstLineTokens(text)) >= k
    THEN Some(FirstLineTokens(text)[k]) ELSE None

\* C18: method and path of a handled request are the first and the second
\* whitespace-delimited token of its first line, absent when the first line
\* has fewer tokens.
C18_FirstLineOnly ==
    \A t \in Handled :
        IsUtf8(requests[t].req)
            => /\ method(requests[t].req) = FirstLineToken(requests[t].req, 1)
               /\ path(requests[t].req) = FirstLineToken(requests[t].req, 2)

\* C19: the assertions of Request::ready never fail: the event delivered to a
\* connection in Reading is readable, the one delivered to a connection in
\* Writing is writable.
C19_AssertionsHold ==
    /\ last.result # "assert"
    /\ \A t \in LiveTokens :
          (running /\ interest[t] # {})
              => /\ requests[t].state = "Reading" => "readable" \in Events(t)
                 /\ requests[t].state = "Writing" => "writable" \in Events(t)

\* C19 witness: a connection went through Reading, Handling (armed for every
\* kind) and a partial write, and the process is running.
C19_Witness ==
    /\ last.step = "write"
    /\ last.result = "partial"
    /\ running

\* C20: no connection waits in the accept queue for a later arrival: while a
\* connection is waiting, an event for the listener awaits dispatch.
C20_PendingHasEvent ==
    (running /\ backlog # <<>>) => listenerEvent

=============================================================================
